---- MODULE Spec2Model ----
(***************************************************************************)
(* XaunsurnDS: the thread-safe Queue and Stack of xaunsurnds/core.         *)
(* Each container is a collections.deque (_items) guarded by one           *)
(* threading.Lock (_lock); every method body runs inside `with self._lock`.*)
(* The module models ONE container instance whose class is `kind`; the two *)
(* classes share no state, so an instance of each is checked in turn.      *)
(***************************************************************************)
EXTENDS Integers, Sequences, FiniteSets, Bags, TLC

VARIABLES
    kind,    \* class of the instance: "Queue" or "Stack"
    items,   \* self._items, the deque, leftmost element first
    lock,    \* self._lock: 0 when free, else the thread that holds it
    pc,      \* per thread: where it is inside a method
    op,      \* per thread: the method it is executing ("none" when idle)
    arg,     \* per thread: the argument of that method
    res,     \* per thread: the outcome computed inside the with-block
    pre,     \* per thread: _items as it was when the thread took the lock
    it,      \* per thread: the deque iterator it got from __iter__
    reader,  \* the thread whose last step read or wrote the deque's elements (0: none)
    given,   \* per thread: the items a scripted caller is to add, in order
    plan,    \* per thread: the calls a scripted caller still has to make
    log,     \* what the scripted caller's removals and snapshots returned, in order
    scope    \* per thread: its `with container as x:` statement

vars == <<kind, items, lock, pc, op, arg, res, pre, it, reader, given, plan, log,
          scope>>

----------------------------------------------------------------------------
(* Bounds of the model *)

NumThreads == 2      \* threads calling into the container
MaxSize    == 4      \* cap on len(_items)
MaxBulk    == 2      \* cap on the length of a bulk / restore argument

Threads == 1..NumThreads

(* Python values *)
None   == "None"                 \* Python's None; it can be stored as an item
Values == {"a", None}            \* the items callers store
Free   == 0                      \* the lock is not held

(* Python types of the argument handed to bulk_enqueue / bulk_push / restore *)
PyTypes == {"list", "tuple", "set"}

(* Error kinds of the specification and the Python exceptions standing for them *)
EmptyContainer  == {"IndexError"}
InvalidArgument == {"TypeError", "ValueError"}

SeqsUpTo(n) == UNION {[1..k -> Values] : k \in 0..n}

(* The arguments a caller can hand over: a typed ordered collection *)
PyArgs == {[type |-> ty, elems |-> s] : ty \in PyTypes, s \in SeqsUpTo(MaxBulk)}

(* The counts tried by bulk removal: negative, zero, fitting, too large *)
Counts == (0 - 1)..(MaxSize + 1)

NoArg == [type |-> "none", elems |-> <<>>]
(* What a call gave: the exception raised ("none": it returned), and the    *)
(* value returned, by its Python type: an item or None (val), a list, an     *)
(* int, a bool, or another object (obj)                                      *)
NoRes == [exc |-> "none", val |-> None, list |-> <<>>, int |-> 0, bool |-> FALSE,
          obj |-> NoArg]
NoIt  == [live |-> FALSE, det |-> FALSE, dirty |-> FALSE, n |-> 0,
          d |-> <<>>, exp |-> <<>>, got |-> "none", ok |-> TRUE]

(* a with statement: not begun ("out"), in its body ("in"), in __exit__      *)
(* ("exiting") or left ("left"); exc is the exception that ended the body,   *)
(* as is what __enter__ returned                                             *)
NoScope == [st |-> "out", exc |-> "none", as |-> "none"]

Ok(v)     == [NoRes EXCEPT !.val = v]
OkList(s) == [NoRes EXCEPT !.list = s]
OkInt(n)  == [NoRes EXCEPT !.int = n]
OkBool(b) == [NoRes EXCEPT !.bool = b]
OkObj(r)  == [NoRes EXCEPT !.obj = r]
Raise(e)  == [NoRes EXCEPT !.exc = e]

(* the argument of a call: an item, a count, a Python object as in PyArgs,  *)
(* or none (NoArg)                                                           *)
Item(v)  == [item |-> v]
Num(c)  == [count |-> c]

----------------------------------------------------------------------------
(* collections.deque, as far as the containers use it *)

RECURSIVE Reverse(_)
Reverse(s) == IF s = <<>> THEN <<>> ELSE Append(Reverse(Tail(s)), Head(s))

Front(s) == SubSeq(s, 1, Len(s) - 1)     \* all but the rightmost element
Last(s)  == s[Len(s)]

DequeAppend(d, x)  == Append(d, x)       \* deque.append

(* a dequeue that takes the newest item instead of the oldest *)
DequePopLeft_right(d) == [item |-> Last(d), rest |-> Front(d)]
(* a dequeue that reads the head but leaves it in place *)
DequePopLeft_keep(d) == [item |-> Head(d), rest |-> d]
DequePopLeft(d)    == [item |-> Head(d), rest |-> Tail(d)]   \* deque.popleft

(* a pop that takes the oldest item instead of the newest *)
DequePop_left(d) == [item |-> Head(d), rest |-> Tail(d)]
DequePop(d)        == [item |-> Last(d), rest |-> Front(d)]  \* deque.pop

(* a reverse that moves the leftmost element to the right end *)
DequeReverse_rotate(d) == IF d = <<>> THEN d ELSE Append(Tail(d), Head(d))
DequeReverse(d)    == Reverse(d)         \* deque.reverse

(* a swap that assigns one after the other, losing the old top *)
SwapLastTwo_sequential(d) ==
    [i \in 1..Len(d) |-> IF i = Len(d) THEN d[Len(d) - 1] ELSE d[i]]

(* self._items[-1], self._items[-2] = self._items[-2], self._items[-1] *)
SwapLastTwo(d) ==
    [i \in 1..Len(d) |->
        IF i = Len(d) THEN d[Len(d) - 1]
        ELSE IF i = Len(d) - 1 THEN d[Len(d)]
        ELSE d[i]]

(* a snapshot handed out as a tuple *)
ListOf_tuple(d) == [type |-> "tuple", elems |-> d]
(* list(self._items): a new list of the deque's elements, left to right *)
ListOf(d) == [type |-> "list", elems |-> d]

(* isinstance(items, (list, tuple)) and isinstance(snapshot, list) *)
IsListOrTuple(a) == a.type \in {"list", "tuple"}
(* a restore that takes what the bulk methods take *)
IsList_seq(a)    == a.type \in {"list", "tuple"}
IsList(a)        == a.type = "list"

(* A deque counts its structural mutations (append, pop, popleft, extend of  *)
(* a non-empty argument, clear of a non-empty deque); an iterator remembers  *)
(* the count it was created at.  reverse() and item assignment do not count. *)
(* Touch marks every iterator that still refers to the container's deque;    *)
(* a marked iterator can only raise, so nothing else of it is kept.          *)
Touch(its) ==
    [t \in Threads |->
        IF its[t].live /\ ~its[t].det
        THEN [NoIt EXCEPT !.live = TRUE, !.dirty = TRUE]
        ELSE its[t]]

(* The thread that iterates, and that removes the items in the scripted     *)
(* runs; every thread, it too, may change the contents meanwhile             *)
Consumer == NumThreads

View(d) == IF kind = "Queue" THEN d ELSE Reverse(d)

(* What an iterator with n elements to go yields from deque d when d is not *)
(* changed any more: the last n elements left to right (Queue), the first n *)
(* right to left (Stack, reversed)                                          *)
Remaining(d, n) ==
    IF kind = "Queue" THEN SubSeq(d, Len(d) - n + 1, Len(d))
    ELSE Reverse(SubSeq(d, 1, n))

(* restore() binds _items to a NEW deque: live iterators keep the old one,   *)
(* which nothing changes any more; d holds what they still yield from it.    *)
Detach(its, old) ==
    [t \in Threads |->
        IF its[t].live /\ ~its[t].det /\ ~its[t].dirty
        THEN [its[t] EXCEPT !.det = TRUE, !.d = Remaining(old, its[t].n)]
        ELSE its[t]]

----------------------------------------------------------------------------
(* The lock and the callers *)

(* a with-block that does not wait for the lock *)
LockFree_nowait == TRUE
(* `with self._lock:` blocks until the lock is free *)
LockFree == lock = Free

(* A scripted caller makes the calls of its plan in order; a caller whose    *)
(* plan is AnyPlan makes any call at any time.  The argument Kept stands for *)
(* the value the caller's last logged call returned.                         *)
Call(name, a) == [name |-> name, a |-> a]
AnyPlan == <<Call("any", NoArg)>>
Kept == [type |-> "kept", elems |-> <<>>]

MayCall(t, name, a) ==
    /\ plan[t] # <<>>
    /\ \/ Head(plan[t]).name = "any"
       \/ /\ Head(plan[t]).name = name
          /\ \/ Head(plan[t]).a = a
             \/ /\ name = "restore"
                /\ Head(plan[t]).a = Kept
                /\ log # <<>>
                /\ a = Last(log).obj
       \/ /\ Head(plan[t]).name = "take"
          /\ name \in {"dequeue", "bulk_dequeue"}

Advance(t) ==
    IF Head(plan[t]).name = "any" THEN plan ELSE [plan EXCEPT ![t] = Tail(@)]

Scripted(t) == plan[t] = <<>> \/ Head(plan[t]).name \notin {"any", "invoke"}

(* Entering `with self._lock:` of method `name`, called by t with argument a *)
(* The thread either calls the method now, or it called it earlier and has  *)
(* been blocked in the lock's acquire() since ("wait")                       *)
Enter(t, name, a) ==
    /\ \/ pc[t] = "idle" /\ MayCall(t, name, a)
       \/ pc[t] = "wait" /\ op[t] = name /\ arg[t] = a
    /\ LockFree
    /\ lock' = t
    /\ op' = [op EXCEPT ![t] = name]
    /\ arg' = [arg EXCEPT ![t] = a]
    /\ pre' = [pre EXCEPT ![t] = items]
    /\ plan' = IF pc[t] = "idle" THEN Advance(t) ELSE plan
    /\ reader' = t
    /\ UNCHANGED <<kind, given, log, scope>>

(* The call of a method up to its `with self._lock:`, where the thread      *)
(* blocks until the lock is free                                             *)
Invoke(t, name, a) ==
    /\ pc[t] = "idle"
    /\ pc' = [pc EXCEPT ![t] = "wait"]
    /\ op' = [op EXCEPT ![t] = name]
    /\ arg' = [arg EXCEPT ![t] = a]
    /\ UNCHANGED <<kind, items, lock, res, pre, it, reader, given, plan, log>>

(* The body ran to its return or raise: the with-block is about to be left *)
Finish(t, newItems, result) ==
    /\ items' = newItems
    /\ res' = [res EXCEPT ![t] = result]
    /\ pc' = [pc EXCEPT ![t] = "exit"]

(* a with-block written as acquire() .. release() without try/finally: an   *)
(* exception skips the release                                               *)
Release_onreturn(t) ==
    /\ pc[t] = "exit"
    /\ lock' = IF res[t].exc = "none" THEN Free ELSE lock
    /\ pc' = [pc EXCEPT ![t] = "idle"]
    /\ op' = [op EXCEPT ![t] = "none"]
    /\ arg' = [arg EXCEPT ![t] = NoArg]
    /\ res' = [res EXCEPT ![t] = NoRes]
    /\ pre' = [pre EXCEPT ![t] = <<>>]
    /\ reader' = 0
    /\ log' = IF Scripted(t) /\ op[t] \in {"dequeue", "pop", "snapshot"}
              THEN Append(log, res[t])
              ELSE IF Scripted(t) /\ op[t] = "bulk_dequeue" /\ res[t].exc = "none"
              THEN log \o [i \in 1..Len(res[t].list) |-> Ok(res[t].list[i])]
              ELSE IF Scripted(t) /\ op[t] = "bulk_dequeue"
              THEN Append(log, res[t])
              ELSE log
    /\ scope' = IF scope[t].st = "exiting"
                THEN [scope EXCEPT ![t].st = "left"]
                ELSE IF scope[t].st = "in" /\ res[t].exc # "none"
                THEN [scope EXCEPT ![t].exc = res[t].exc]
                ELSE scope
    /\ UNCHANGED <<kind, items, it, given, plan>>

(* Leaving the with-block, by return or by exception: the lock is released  *)
(* and the outcome reaches the caller. An exception that reaches the body of *)
(* the caller's with statement ends that body; when the call was __exit__'s  *)
(* clear(), __exit__ returns None and the with statement is left, the        *)
(* body's exception still pending.                                           *)
Release(t) ==
    /\ pc[t] = "exit"
    /\ lock' = Free
    /\ pc' = [pc EXCEPT ![t] = "idle"]
    /\ op' = [op EXCEPT ![t] = "none"]
    /\ arg' = [arg EXCEPT ![t] = NoArg]
    /\ res' = [res EXCEPT ![t] = NoRes]
    /\ pre' = [pre EXCEPT ![t] = <<>>]
    /\ reader' = 0
    /\ log' = IF Scripted(t) /\ op[t] \in {"dequeue", "pop", "snapshot"}
              THEN Append(log, res[t])
              ELSE IF Scripted(t) /\ op[t] = "bulk_dequeue" /\ res[t].exc = "none"
              THEN log \o [i \in 1..Len(res[t].list) |-> Ok(res[t].list[i])]
              ELSE IF Scripted(t) /\ op[t] = "bulk_dequeue"
              THEN Append(log, res[t])
              ELSE log
    /\ scope' = IF scope[t].st = "exiting"
                THEN [scope EXCEPT ![t].st = "left"]
                ELSE IF scope[t].st = "in" /\ res[t].exc # "none"
                THEN [scope EXCEPT ![t].exc = res[t].exc]
                ELSE scope
    /\ UNCHANGED <<kind, items, it, given, plan>>

----------------------------------------------------------------------------
(* Queue *)

(* an enqueue that inserts at the head (appendleft) *)
enqueue_front(t, item) ==
    /\ kind = "Queue"
    /\ Len(items) < MaxSize
    /\ Enter(t, "enqueue", Item(item))
    /\ Finish(t, <<item>> \o items, Ok(None))
    /\ it' = Touch(it)

enqueue(t, item) ==
    /\ kind = "Queue"
    /\ Len(items) < MaxSize
    /\ Enter(t, "enqueue", Item(item))
    /\ Finish(t, DequeAppend(items, item), Ok(None))
    /\ it' = Touch(it)

dequeue(t) ==
    /\ kind = "Queue"
    /\ Enter(t, "dequeue", NoArg)
    /\ IF items = <<>>
       THEN Finish(t, items, Raise("IndexError")) /\ it' = it
       ELSE /\ Finish(t, DequePopLeft(items).rest, Ok(DequePopLeft(items).item))
            /\ it' = Touch(it)

(* bulk_enqueue: the isinstance check, then deque.extend appending the     *)
(* elements one after the other, all inside one with-block                   *)
bulk_enqueue(t, a) ==
    /\ kind = "Queue"
    /\ Len(items) + Len(a.elems) <= MaxSize
    /\ Enter(t, "bulk_enqueue", a)
    /\ IF ~IsListOrTuple(a)
       THEN Finish(t, items, Raise("TypeError"))
       ELSE IF a.elems = <<>>
       THEN Finish(t, items, Ok(None))
       ELSE /\ pc' = [pc EXCEPT ![t] = "extend"]
            /\ UNCHANGED <<items, res>>
    /\ it' = it

(* a bulk_dequeue that takes what is there before it finds the count too large *)
bulk_dequeue_drain(t, count) ==
    /\ kind = "Queue"
    /\ Enter(t, "bulk_dequeue", Num(count))
    /\ IF count <= 0
       THEN Finish(t, items, Raise("ValueError"))
       ELSE IF count > Len(items)
       THEN Finish(t, <<>>, Raise("IndexError"))
       ELSE /\ pc' = [pc EXCEPT ![t] = "comprehension"]
            /\ res' = [res EXCEPT ![t] = OkList(<<>>)]
            /\ items' = items
    /\ it' = IF count > Len(items) /\ items # <<>> THEN Touch(it) ELSE it

(* a bulk_dequeue that reports a too large count as a bad argument *)
bulk_dequeue_badarg(t, count) ==
    /\ kind = "Queue"
    /\ Enter(t, "bulk_dequeue", Num(count))
    /\ IF count <= 0 \/ count > Len(items)
       THEN Finish(t, items, Raise("ValueError"))
       ELSE /\ pc' = [pc EXCEPT ![t] = "comprehension"]
            /\ res' = [res EXCEPT ![t] = OkList(<<>>)]
            /\ items' = items
    /\ it' = it

(* a bulk_dequeue whose first check is count < 0 *)
bulk_dequeue_zero(t, count) ==
    /\ kind = "Queue"
    /\ Enter(t, "bulk_dequeue", Num(count))
    /\ IF count < 0
       THEN Finish(t, items, Raise("ValueError"))
       ELSE IF count > Len(items)
       THEN Finish(t, items, Raise("IndexError"))
       ELSE IF count = 0
       THEN Finish(t, items, OkList(<<>>))
       ELSE /\ pc' = [pc EXCEPT ![t] = "comprehension"]
            /\ res' = [res EXCEPT ![t] = OkList(<<>>)]
            /\ items' = items
    /\ it' = it

(* bulk_dequeue: the two checks, then the list comprehension calling popleft *)
(* count times, all inside one with-block                                    *)
bulk_dequeue(t, count) ==
    /\ kind = "Queue"
    /\ Enter(t, "bulk_dequeue", Num(count))
    /\ IF count <= 0
       THEN Finish(t, items, Raise("ValueError"))
       ELSE IF count > Len(items)
       THEN Finish(t, items, Raise("IndexError"))
       ELSE /\ pc' = [pc EXCEPT ![t] = "comprehension"]
            /\ res' = [res EXCEPT ![t] = OkList(<<>>)]
            /\ items' = items
    /\ it' = it

----------------------------------------------------------------------------
(* Stack *)

push(t, item) ==
    /\ kind = "Stack"
    /\ Len(items) < MaxSize
    /\ Enter(t, "push", Item(item))
    /\ Finish(t, DequeAppend(items, item), Ok(None))
    /\ it' = Touch(it)

pop(t) ==
    /\ kind = "Stack"
    /\ Enter(t, "pop", NoArg)
    /\ IF items = <<>>
       THEN Finish(t, items, Raise("IndexError")) /\ it' = it
       ELSE /\ Finish(t, DequePop(items).rest, Ok(DequePop(items).item))
            /\ it' = Touch(it)

bulk_push(t, a) ==
    /\ kind = "Stack"
    /\ Len(items) + Len(a.elems) <= MaxSize
    /\ Enter(t, "bulk_push", a)
    /\ IF ~IsListOrTuple(a)
       THEN Finish(t, items, Raise("TypeError"))
       ELSE IF a.elems = <<>>
       THEN Finish(t, items, Ok(None))
       ELSE /\ pc' = [pc EXCEPT ![t] = "extend"]
            /\ UNCHANGED <<items, res>>
    /\ it' = it

bulk_pop(t, count) ==
    /\ kind = "Stack"
    /\ Enter(t, "bulk_pop", Num(count))
    /\ IF count <= 0
       THEN Finish(t, items, Raise("ValueError"))
       ELSE IF count > Len(items)
       THEN Finish(t, items, Raise("IndexError"))
       ELSE /\ pc' = [pc EXCEPT ![t] = "comprehension"]
            /\ res' = [res EXCEPT ![t] = OkList(<<>>)]
            /\ items' = items
    /\ it' = it

(* a duplicate_top that copies the bottom item *)
duplicate_top_bottom(t) ==
    /\ kind = "Stack"
    /\ Len(items) < MaxSize
    /\ Enter(t, "duplicate_top", NoArg)
    /\ IF items = <<>>
       THEN Finish(t, items, Raise("IndexError")) /\ it' = it
       ELSE /\ Finish(t, DequeAppend(items, Head(items)), Ok(None))
            /\ it' = Touch(it)

duplicate_top(t) ==
    /\ kind = "Stack"
    /\ Len(items) < MaxSize
    /\ Enter(t, "duplicate_top", NoArg)
    /\ IF items = <<>>
       THEN Finish(t, items, Raise("IndexError")) /\ it' = it
       ELSE /\ Finish(t, DequeAppend(items, Last(items)), Ok(None))
            /\ it' = Touch(it)

swap_top(t) ==
    /\ kind = "Stack"
    /\ Enter(t, "swap_top", NoArg)
    /\ IF Len(items) < 2
       THEN Finish(t, items, Raise("IndexError"))
       ELSE Finish(t, SwapLastTwo(items), Ok(None))
    /\ it' = it

----------------------------------------------------------------------------
(* The loops of the bulk methods; the thread holds the lock throughout *)

(* deque.extend(items): one append per element of the argument *)
extend(t) ==
    /\ pc[t] = "extend"
    /\ LET k    == Len(items) - Len(pre[t]) + 1
           next == DequeAppend(items, arg[t].elems[k])
       IN  /\ items' = next
           /\ IF k = Len(arg[t].elems)
              THEN /\ pc' = [pc EXCEPT ![t] = "exit"]
                   /\ res' = [res EXCEPT ![t] = Ok(None)]
              ELSE UNCHANGED <<pc, res>>
    /\ it' = Touch(it)
    /\ reader' = t
    /\ UNCHANGED <<kind, lock, op, arg, pre, given, plan, log, scope>>

(* a bulk_pop that removes from the left end, as bulk_dequeue does *)
comprehension_popleft(t) ==
    /\ pc[t] = "comprehension"
    /\ LET r   == DequePopLeft(items)
           out == Append(res[t].list, r.item)
       IN  /\ items' = r.rest
           /\ res' = [res EXCEPT ![t] = OkList(out)]
           /\ pc' = [pc EXCEPT ![t] =
                        IF Len(out) = arg[t].count THEN "exit" ELSE "comprehension"]
    /\ it' = Touch(it)
    /\ reader' = t
    /\ UNCHANGED <<kind, lock, op, arg, pre, given, plan, log, scope>>

(* [self._items.popleft() for _ in range(count)], resp. .pop() *)
comprehension(t) ==
    /\ pc[t] = "comprehension"
    /\ LET r   == IF kind = "Queue" THEN DequePopLeft(items) ELSE DequePop(items)
           out == Append(res[t].list, r.item)
       IN  /\ items' = r.rest
           /\ res' = [res EXCEPT ![t] = OkList(out)]
           /\ pc' = [pc EXCEPT ![t] =
                        IF Len(out) = arg[t].count THEN "exit" ELSE "comprehension"]
    /\ it' = Touch(it)
    /\ reader' = t
    /\ UNCHANGED <<kind, lock, op, arg, pre, given, plan, log, scope>>

----------------------------------------------------------------------------
(* Methods the two classes spell alike *)

peek(t) ==
    /\ Enter(t, "peek", NoArg)
    /\ Finish(t, items,
              IF items = <<>> THEN Ok(None)
              ELSE IF kind = "Queue" THEN Ok(items[1]) ELSE Ok(Last(items)))
    /\ it' = it

is_empty(t) ==
    /\ Enter(t, "is_empty", NoArg)
    /\ Finish(t, items, OkBool(items = <<>>))
    /\ it' = it

size(t) ==
    /\ Enter(t, "size", NoArg)
    /\ Finish(t, items, OkInt(Len(items)))
    /\ it' = it

clear(t) ==
    /\ Enter(t, "clear", NoArg)
    /\ Finish(t, <<>>, Ok(None))
    /\ it' = IF items = <<>> THEN it ELSE Touch(it)

(* __len__ takes no lock itself: it calls size(), which does *)
__len__(t) ==
    /\ Invoke(t, "size", NoArg)
    /\ scope' = scope

(* f"Stack({list(self._items)})", resp. f"Queue(..)" *)
Repr(d) == [type |-> "str", cls |-> kind, elems |-> d]

__repr__(t) ==
    /\ Enter(t, "__repr__", NoArg)
    /\ Finish(t, items, OkObj(Repr(items)))
    /\ it' = it

(* with c as x: __enter__ takes no lock and returns self *)
__enter__(t) ==
    /\ pc[t] = "idle"
    /\ scope[t].st = "out"
    /\ scope' = [scope EXCEPT ![t] = [st |-> "in", exc |-> "none", as |-> "self"]]
    /\ UNCHANGED <<kind, items, lock, pc, op, arg, res, pre, it, reader, given,
                   plan, log>>

(* an __exit__ that clears only when the body ended without an exception *)
__exit___onsuccess(t) ==
    /\ scope[t].st = "in"
    /\ IF scope[t].exc = "none"
       THEN /\ Invoke(t, "clear", NoArg)
            /\ scope' = [scope EXCEPT ![t].st = "exiting"]
       ELSE /\ pc[t] = "idle"
            /\ scope' = [scope EXCEPT ![t].st = "left"]
            /\ UNCHANGED <<kind, items, lock, pc, op, arg, res, pre, it, reader,
                           given, plan, log>>

(* __exit__(exc_type, exc_value, traceback), called when the body has ended  *)
(* or raised: it takes no lock itself and calls clear(), whatever the        *)
(* exception                                                                 *)
__exit__(t) ==
    /\ scope[t].st = "in"
    /\ Invoke(t, "clear", NoArg)
    /\ scope' = [scope EXCEPT ![t].st = "exiting"]

snapshot(t) ==
    /\ Enter(t, "snapshot", NoArg)
    /\ Finish(t, items, OkObj(ListOf(items)))
    /\ it' = it

(* a restore that rebinds _items before it checks the argument *)
restore_unchecked(t, a) ==
    /\ Enter(t, "restore", a)
    /\ IF ~IsList(a)
       THEN Finish(t, a.elems, Raise("TypeError")) /\ it' = Detach(it, items)
       ELSE Finish(t, a.elems, Ok(None)) /\ it' = Detach(it, items)

restore(t, a) ==
    /\ Enter(t, "restore", a)
    /\ IF ~IsList(a)
       THEN Finish(t, items, Raise("TypeError")) /\ it' = it
       ELSE Finish(t, a.elems, Ok(None)) /\ it' = Detach(it, items)

reverse(t) ==
    /\ Enter(t, "reverse", NoArg)
    /\ Finish(t, DequeReverse(items), Ok(None))
    /\ it' = it

contains(t, item) ==
    /\ Enter(t, "contains", Item(item))
    /\ Finish(t, items, OkBool(\E i \in 1..Len(items) : items[i] = item))
    /\ it' = it

----------------------------------------------------------------------------
(* Iteration: __iter__ creates the iterator inside the with-block and        *)
(* returns it; every later next() on it runs with NO lock held and reads the *)
(* deque the iterator refers to.  The Queue iterates left to right, the      *)
(* Stack right to left (reversed).                                           *)

iter(t) ==
    /\ t = Consumer
    /\ Enter(t, "__iter__", NoArg)
    /\ Finish(t, items, Ok(None))
    /\ it' = [it EXCEPT ![t] = [NoIt EXCEPT !.live = TRUE, !.n = Len(items),
                                           !.exp = View(items)]]

(* next(iterator): "deque mutated during iteration" when the mutation count  *)
(* moved, StopIteration when the remaining count is 0, else the element at    *)
(* the iterator's position of the deque as it is NOW.                         *)
IterNext(t) ==
    /\ pc[t] = "idle"
    /\ it[t].live
    /\ MayCall(t, "__next__", NoArg)
    /\ plan' = Advance(t)
    /\ LET i   == it[t]
           x   == IF i.det THEN Head(i.d) ELSE Head(Remaining(items, i.n))
       IN  IF i.dirty
           THEN it' = [it EXCEPT ![t] =
                          [NoIt EXCEPT !.got = "RuntimeError", !.ok = FALSE]]
           ELSE IF i.n = 0
           THEN it' = [it EXCEPT ![t] =
                          [NoIt EXCEPT !.got = "StopIteration", !.ok = i.ok]]
           ELSE IF i.ok /\ x = Head(i.exp)
           THEN it' = [it EXCEPT ![t] =
                          [i EXCEPT !.n = @ - 1, !.exp = Tail(@),
                                    !.d = IF i.det THEN Tail(@) ELSE @]]
           ELSE it' = [it EXCEPT ![t] =
                          [i EXCEPT !.n = @ - 1, !.exp = <<>>, !.ok = FALSE,
                                    !.d = IF i.det THEN Tail(@) ELSE @]]
    /\ reader' = IF it[t].dirty \/ it[t].n = 0 THEN 0 ELSE t
    /\ UNCHANGED <<kind, items, lock, pc, op, arg, res, pre, given, log, scope>>

----------------------------------------------------------------------------
(* Specifications *)

Idle ==
    /\ lock = Free
    /\ pc = [t \in Threads |-> "idle"]
    /\ op = [t \in Threads |-> "none"]
    /\ arg = [t \in Threads |-> NoArg]
    /\ res = [t \in Threads |-> NoRes]
    /\ pre = [t \in Threads |-> <<>>]
    /\ it = [t \in Threads |-> NoIt]
    /\ reader = 0
    /\ log = <<>>
    /\ scope = [t \in Threads |-> NoScope]

(* __init__: an empty deque and a free lock; any thread calls anything *)
Init ==
    /\ kind \in {"Queue", "Stack"}
    /\ items = <<>>
    /\ Idle
    /\ given = [t \in Threads |-> <<>>]
    /\ plan = [t \in Threads |-> AnyPlan]

Methods(t) ==
    \/ \E v \in Values : enqueue(t, v)
    \/ dequeue(t)
    \/ \E a \in PyArgs : bulk_enqueue(t, a)
    \/ \E c \in Counts : bulk_dequeue(t, c)
    \/ \E v \in Values : push(t, v)
    \/ pop(t)
    \/ \E a \in PyArgs : bulk_push(t, a)
    \/ \E c \in Counts : bulk_pop(t, c)
    \/ duplicate_top(t)
    \/ swap_top(t)
    \/ extend(t)
    \/ comprehension(t)
    \/ peek(t)
    \/ is_empty(t)
    \/ size(t)
    \/ clear(t)
    \/ snapshot(t)
    \/ \E a \in PyArgs : restore(t, a)
    \/ reverse(t)
    \/ \E v \in Values : contains(t, v)
    \/ __repr__(t)
    \/ Release(t)

Next == \E t \in Threads : Methods(t)

Spec == Init /\ [][Next]_vars

(* A consumer iterating while every thread, the consumer too, runs the     *)
(* methods that change the contents                                          *)
Mutators(t) ==
    \/ \E v \in Values : enqueue(t, v)
    \/ dequeue(t)
    \/ \E v \in Values : push(t, v)
    \/ pop(t)
    \/ clear(t)
    \/ reverse(t)
    \/ swap_top(t)
    \/ \E a \in PyArgs : restore(t, a)
    \/ Release(t)

NextIter == \E t \in Threads : Mutators(t) \/ iter(t) \/ IterNext(t)

SpecIter == Init /\ [][NextIter]_vars

----------------------------------------------------------------------------
(* Scripted callers: every thread adds the items given to it, one call per   *)
(* item; when all of them have finished, the consumer removes as many items  *)
(* as were added, one call per item.                                         *)

RECURSIVE Total(_, _)
Total(f, n) == IF n = 0 THEN 0 ELSE Len(f[n]) + Total(f, n - 1)

Adds(name, xs)  == [i \in 1..Len(xs) |-> Call(name, Item(xs[i]))]
Removes(name, n) == [i \in 1..n |-> Call(name, NoArg)]

(* threading.Thread.join on every other thread *)
Join(t) ==
    /\ pc[t] = "idle"
    /\ plan[t] # <<>>
    /\ Head(plan[t]).name = "join"
    /\ \A u \in Threads \ {t} : plan[u] = <<>> /\ pc[u] = "idle"
    /\ plan' = [plan EXCEPT ![t] = Tail(@)]
    /\ UNCHANGED <<kind, items, lock, pc, op, arg, res, pre, it, reader, given, log,
                   scope>>

InitScript ==
    /\ kind \in {"Queue", "Stack"}
    /\ items = <<>>
    /\ Idle
    /\ given \in {g \in [Threads -> SeqsUpTo(MaxSize)] : Total(g, NumThreads) <= MaxSize}
    /\ plan = [t \in Threads |->
                 Adds(IF kind = "Queue" THEN "enqueue" ELSE "push", given[t])
                 \o (IF t = Consumer
                     THEN <<Call("join", NoArg)>>
                          \o Removes(IF kind = "Queue" THEN "dequeue" ELSE "pop",
                                     Total(given, NumThreads))
                     ELSE <<>>)]

NextScript ==
    \E t \in Threads :
        \/ \E v \in Values : enqueue(t, v)
        \/ dequeue(t)
        \/ \E v \in Values : push(t, v)
        \/ pop(t)
        \/ Release(t)
        \/ Join(t)

SpecScript == InitScript /\ [][NextScript]_vars

(* restore(snapshot()): the scripted caller adds its items, takes a          *)
(* snapshot and hands what snapshot() returned to restore()                  *)
InitRoundTrip ==
    /\ kind \in {"Queue", "Stack"}
    /\ items = <<>>
    /\ Idle
    /\ given \in {g \in [Threads -> SeqsUpTo(MaxSize)] :
                    \A t \in Threads \ {Consumer} : g[t] = <<>>}
    /\ plan = [t \in Threads |->
                 IF t = Consumer
                 THEN Adds(IF kind = "Queue" THEN "enqueue" ELSE "push", given[t])
                      \o <<Call("snapshot", NoArg), Call("restore", Kept)>>
                 ELSE <<>>]

NextRoundTrip ==
    \E t \in Threads :
        \/ \E v \in Values : enqueue(t, v)
        \/ \E v \in Values : push(t, v)
        \/ snapshot(t)
        \/ log # <<>> /\ restore(t, Last(log).obj)
        \/ Release(t)

SpecRoundTrip == InitRoundTrip /\ [][NextRoundTrip]_vars

(* Producers and a consumer on one Queue: every other thread adds its own    *)
(* items, numbered 1, 2, .. and marked as its own, in this order, by enqueue or *)
(* by bulk_enqueue of the next few, while the consumer makes MaxSize removal *)
(* calls, each a dequeue or a bulk_dequeue, at any time.                     *)
Tag(p, k) == [by |-> p, k |-> k]
Tags == {Tag(p, k) : p \in Threads, k \in 1..MaxSize}

RECURSIVE Batches(_, _, _)
Batches(p, k, n) ==
    IF k > n THEN {<<>>}
    ELSE {<<Call("enqueue", Item(Tag(p, k)))>> \o r : r \in Batches(p, k + 1, n)}
         \cup UNION {{<<Call("bulk_enqueue",
                            ListOf([i \in 1..m |-> Tag(p, k + i - 1)]))>> \o r
                         : r \in Batches(p, k + m, n)}
                      : m \in 1..(IF MaxBulk < n - k + 1 THEN MaxBulk ELSE n - k + 1)}

(* the plans of threads 1..k adding at most budget items between them *)
RECURSIVE ProducerPlans(_, _)
ProducerPlans(k, budget) ==
    IF k = 0 THEN {<<>>}
    ELSE UNION {{Append(f, x) : f \in ProducerPlans(k - 1, budget - m),
                                x \in Batches(k, 1, m)}
                : m \in 0..budget}

RECURSIVE Added(_)
Added(p) ==
    IF p = <<>> THEN <<>>
    ELSE (IF Head(p).name = "enqueue" THEN <<Head(p).a.item>> ELSE Head(p).a.elems)
         \o Added(Tail(p))

InitProdCons ==
    /\ kind = "Queue"
    /\ items = <<>>
    /\ Idle
    /\ plan \in {Append(f, [i \in 1..MaxSize |-> Call("take", NoArg)])
                   : f \in ProducerPlans(NumThreads - 1, MaxSize)}
    /\ given = [t \in Threads |-> IF t = Consumer THEN <<>> ELSE Added(plan[t])]

NextProdCons ==
    \E t \in Threads :
        \/ \E v \in Tags : enqueue(t, v)
        \/ /\ plan[t] # <<>>
           /\ Head(plan[t]).name = "bulk_enqueue"
           /\ bulk_enqueue(t, Head(plan[t]).a)
        \/ extend(t)
        \/ dequeue(t)
        \/ \E c \in 1..MaxBulk : bulk_dequeue(t, c)
        \/ comprehension(t)
        \/ Release(t)

SpecProdCons == InitProdCons /\ [][NextProdCons]_vars

(* Callers using the container as a scope: with c as x: <body>. The body    *)
(* calls methods, and ends normally, by an exception of a failed call, or by *)
(* an exception of its own; threads outside a scope call methods as well.    *)
CanCall(t) ==
    \/ scope[t].st \in {"out", "left"}
    \/ scope[t].st = "in" /\ scope[t].exc = "none"

BodyRaises(t) ==
    /\ pc[t] = "idle"
    /\ scope[t].st = "in"
    /\ scope[t].exc = "none"
    /\ scope' = [scope EXCEPT ![t].exc = "Exception"]
    /\ UNCHANGED <<kind, items, lock, pc, op, arg, res, pre, it, reader, given,
                   plan, log>>

NextScope ==
    \E t \in Threads :
        \/ /\ pc[t] = "idle"
           /\ CanCall(t)
           /\ \/ \E v \in Values : enqueue(t, v)
              \/ dequeue(t)
              \/ \E v \in Values : push(t, v)
              \/ pop(t)
        \/ __enter__(t)
        \/ BodyRaises(t)
        \/ __exit__(t)
        \/ pc[t] = "wait" /\ clear(t)
        \/ Release(t)

SpecScope == Init /\ [][NextScope]_vars

(* Threads that call a method and block in its `with self._lock:` until the *)
(* lock is free. A call that adds items is made only while the items present *)
(* and those still to be added by the calls under way leave room for them.   *)
(* The items are all None here: which item it is decides no path of a       *)
(* method; the counts are one for each path of bulk_dequeue / bulk_pop, and  *)
(* one thread uses the container as a scope.                                 *)
LiveCounts == {0, 1, MaxBulk, MaxSize + 1}
LiveValues == {None}
LiveArgs == {a \in PyArgs : /\ \A i \in 1..Len(a.elems) : a.elems[i] \in LiveValues
                            /\ a.type # "list" => a.elems = <<>>}

QueueMethods == {"enqueue", "dequeue", "bulk_enqueue", "bulk_dequeue"}
StackMethods == {"push", "pop", "bulk_push", "bulk_pop", "duplicate_top", "swap_top"}
Has(name) ==
    /\ name \in QueueMethods => kind = "Queue"
    /\ name \in StackMethods => kind = "Stack"

Pending(u) ==
    IF pc[u] = "idle" THEN 0
    ELSE IF op[u] \in {"enqueue", "push", "duplicate_top"} THEN 1
    ELSE IF op[u] \in {"bulk_enqueue", "bulk_push", "restore"} THEN Len(arg[u].elems)
    ELSE 0

RECURSIVE PendingUpTo(_)
PendingUpTo(n) == IF n = 0 THEN 0 ELSE Pending(n) + PendingUpTo(n - 1)

Room(n) == Len(items) + PendingUpTo(NumThreads) + n <= MaxSize

Calls(t) ==
    /\ CanCall(t)
    /\ \/ \E n \in {"enqueue", "push", "contains"}, v \in LiveValues :
             Has(n) /\ (n = "contains" \/ Room(1)) /\ Invoke(t, n, Item(v))
       \/ \E n \in {"dequeue", "pop", "duplicate_top", "swap_top", "peek",
                    "is_empty", "size", "clear", "snapshot", "reverse", "__repr__"} :
             Has(n) /\ (n # "duplicate_top" \/ Room(1)) /\ Invoke(t, n, NoArg)
       \/ \E n \in {"bulk_enqueue", "bulk_push", "restore"}, a \in LiveArgs :
             Has(n) /\ Room(Len(a.elems)) /\ Invoke(t, n, a)
       \/ \E n \in {"bulk_dequeue", "bulk_pop"}, c \in LiveCounts :
             Has(n) /\ Invoke(t, n, Num(c))
    /\ scope' = scope

InitLive ==
    /\ kind \in {"Queue", "Stack"}
    /\ items = <<>>
    /\ Idle
    /\ given = [t \in Threads |-> <<>>]
    /\ plan = [t \in Threads |-> <<Call("invoke", NoArg)>>]

(* acquire() returns: the blocked thread enters the with-block of the       *)
(* method it called                                                          *)
Acquire(t) ==
    /\ pc[t] = "wait"
    /\ \/ op[t] = "enqueue" /\ enqueue(t, arg[t].item)
       \/ op[t] = "dequeue" /\ dequeue(t)
       \/ op[t] = "bulk_enqueue" /\ bulk_enqueue(t, arg[t])
       \/ op[t] = "bulk_dequeue" /\ bulk_dequeue(t, arg[t].count)
       \/ op[t] = "push" /\ push(t, arg[t].item)
       \/ op[t] = "pop" /\ pop(t)
       \/ op[t] = "bulk_push" /\ bulk_push(t, arg[t])
       \/ op[t] = "bulk_pop" /\ bulk_pop(t, arg[t].count)
       \/ op[t] = "duplicate_top" /\ duplicate_top(t)
       \/ op[t] = "swap_top" /\ swap_top(t)
       \/ op[t] = "peek" /\ peek(t)
       \/ op[t] = "is_empty" /\ is_empty(t)
       \/ op[t] = "size" /\ size(t)
       \/ op[t] = "clear" /\ clear(t)
       \/ op[t] = "snapshot" /\ snapshot(t)
       \/ op[t] = "restore" /\ restore(t, arg[t])
       \/ op[t] = "reverse" /\ reverse(t)
       \/ op[t] = "contains" /\ contains(t, arg[t].item)
       \/ op[t] = "__repr__" /\ __repr__(t)

Running(t) == extend(t) \/ comprehension(t) \/ Release(t)

NextLive ==
    \E t \in Threads :
        \/ Calls(t)
        \/ CanCall(t) /\ __len__(t)
        \/ t = Consumer /\ __enter__(t)
        \/ __exit__(t)
        \/ Acquire(t)
        \/ Running(t)

(* Fair scheduling: a thread inside a with-block keeps running, and a thread *)
(* blocked in acquire() gets the lock if the lock is free again and again    *)
FairLive ==
    \A t \in Threads :
        /\ WF_<<pc, items>>(Running(t))
        /\ SF_<<pc, items>>(Acquire(t))

SpecLive == InitLive /\ [][NextLive]_vars /\ FairLive

----------------------------------------------------------------------------
(* Claims *)

Sequential == \A u \in Threads \ {Consumer} : given[u] = <<>>
Finished   == plan[Consumer] = <<>> /\ pc[Consumer] = "idle"
Count(s, v) == Cardinality({i \in 1..Len(s) : s[i] = v})

(* C1 - FIFO law: a Queue that starts empty and receives enqueue(x1) ..      *)
(* enqueue(xn) and then n dequeue() calls returns xi from the i-th dequeue   *)
(* and is empty afterwards.                                                  *)
C1_FifoLaw ==
    (kind = "Queue" /\ Sequential) =>
        /\ \A i \in 1..Len(log) : log[i] = Ok(given[Consumer][i])
        /\ Finished => Len(log) = Len(given[Consumer]) /\ items = <<>>

C1_Witness ==
    /\ kind = "Queue" /\ Sequential /\ Finished
    /\ Len(given[Consumer]) = MaxSize
    /\ given[Consumer][1] # given[Consumer][2]
    /\ Len(log) = MaxSize

(* C2 - LIFO law: a Stack that starts empty and receives push(x1) ..         *)
(* push(xn) and then n pop() calls returns x(n+1-i) from the i-th pop and is *)
(* empty afterwards.                                                         *)
C2_LifoLaw ==
    (kind = "Stack" /\ Sequential) =>
        /\ \A i \in 1..Len(log) :
              log[i] = Ok(given[Consumer][Len(given[Consumer]) + 1 - i])
        /\ Finished => Len(log) = Len(given[Consumer]) /\ items = <<>>

C2_Witness ==
    /\ kind = "Stack" /\ Sequential /\ Finished
    /\ Len(given[Consumer]) = MaxSize
    /\ given[Consumer][1] # given[Consumer][MaxSize]
    /\ Len(log) = MaxSize

(* C3 - no lost or duplicated items: when every thread has enqueued its      *)
(* items, in any interleaving, and one thread then dequeues as many items as *)
(* were enqueued, every dequeue succeeds, the dequeued items are the         *)
(* enqueued items as a multiset, and the queue is empty.                     *)
C3_NoLostOrDuplicated ==
    (kind = "Queue" /\ Finished) =>
        /\ Len(log) = Total(given, NumThreads)
        /\ \A i \in 1..Len(log) : log[i].exc = "none"
        /\ \A v \in Values :
              Count([i \in 1..Len(log) |-> log[i].val], v)
                = Total([t \in Threads |-> SelectSeq(given[t], LAMBDA x : x = v)],
                        NumThreads)
        /\ items = <<>>

C3_Witness ==
    /\ kind = "Queue" /\ Finished
    /\ \A t \in Threads : Len(given[t]) >= 2
    /\ \E t \in Threads : given[t][1] # given[t][2]
    /\ Len(log) = Total(given, NumThreads)

InSection(t) == pc[t] \notin {"idle", "wait"}
Leaving(t)   == pc[t] = "exit"
Failed(t)    == Leaving(t) /\ res[t].exc # "none"
BulkAdd(t)    == op[t] \in {"bulk_enqueue", "bulk_push"}
BulkRemove(t) == op[t] \in {"bulk_dequeue", "bulk_pop"}

(* C4 - mutual exclusion: at most one thread is inside a lock-guarded        *)
(* section of the container, it is the thread that holds the lock, and the   *)
(* deque's elements are read or written only by the thread holding the lock. *)
C4_MutualExclusion ==
    /\ Cardinality({t \in Threads : InSection(t)}) <= 1
    /\ \A t \in Threads : InSection(t) => lock = t
    /\ reader # 0 => lock = reader

(* C5 - iteration is an atomic snapshot: what an iterator produces is the    *)
(* contents at the instant it was created, whatever happens to the container *)
(* meanwhile; it never produces another item and never ends in an error.     *)
C5_AtomicSnapshot == \A t \in Threads : it[t].ok

(* C6 - bulk_enqueue / bulk_push is atomic and order-preserving: a valid     *)
(* call leaves the old contents followed by its items in the given order,    *)
(* and while only part of the items is appended no other thread is inside an *)
(* operation of the container.                                               *)
C6_BulkAddAtomic ==
    \A t \in Threads :
        /\ (Leaving(t) /\ BulkAdd(t) /\ ~Failed(t)) =>
              items = pre[t] \o arg[t].elems
        /\ pc[t] = "extend" =>
              /\ lock = t
              /\ \A u \in Threads \ {t} : ~InSection(u)
              /\ \E k \in 0..(Len(arg[t].elems) - 1) :
                    items = pre[t] \o SubSeq(arg[t].elems, 1, k)

C6_Witness ==
    \E t \in Threads :
        /\ Leaving(t) /\ op[t] = "bulk_push" /\ ~Failed(t)
        /\ pre[t] # <<>>
        /\ Len(arg[t].elems) = MaxBulk
        /\ arg[t].elems[1] # arg[t].elems[2]

(* C7 - bulk_dequeue(n) / bulk_pop(n) with n greater than the current size   *)
(* raises EmptyContainer and removes nothing.                                *)
C7_TooLargeRemovesNothing ==
    \A t \in Threads :
        (Leaving(t) /\ BulkRemove(t) /\ arg[t].count > Len(pre[t])) =>
            /\ res[t].exc \in EmptyContainer
            /\ items = pre[t]

C7_Witness ==
    \E t \in Threads :
        /\ Leaving(t) /\ op[t] = "bulk_dequeue"
        /\ pre[t] # <<>>
        /\ arg[t].count = Len(pre[t]) + 1

(* C8 as claimed - InvalidArgument is the error of a bulk removal whose      *)
(* count exceeds the current size.                                           *)
C8_TooLargeIsInvalidArgument ==
    \A t \in Threads :
        (Leaving(t) /\ BulkRemove(t) /\ arg[t].count > Len(pre[t])) =>
            res[t].exc \in InvalidArgument

(* C8 as amended - EmptyContainer, and not InvalidArgument, is the error of  *)
(* a bulk removal whose count exceeds the current size.                      *)
C8_TooLargeIsEmptyContainer ==
    \A t \in Threads :
        (Leaving(t) /\ BulkRemove(t) /\ arg[t].count > Len(pre[t])) =>
            res[t].exc \in EmptyContainer \ InvalidArgument

C8_Witness ==
    \E t \in Threads :
        /\ Leaving(t) /\ op[t] = "bulk_pop"
        /\ arg[t].count > Len(pre[t])
        /\ res[t].exc = "IndexError"

(* C9 - bulk_dequeue(count) / bulk_pop(count) with count <= 0 raises         *)
(* InvalidArgument in every state of the container, the empty one too, and   *)
(* leaves the contents unchanged.                                            *)
C9_NonPositiveCount ==
    \A t \in Threads :
        (Leaving(t) /\ BulkRemove(t) /\ arg[t].count <= 0) =>
            /\ res[t].exc \in InvalidArgument
            /\ items = pre[t]

C9_Witness ==
    \E t \in Threads :
        /\ Leaving(t) /\ op[t] = "bulk_dequeue"
        /\ arg[t].count = 0
        /\ pre[t] = <<>>
        /\ res[t].exc = "ValueError"

(* C10 - failure atomicity: a call that fails leaves the contents exactly as *)
(* they were when it began, and it fails before it changes anything: no      *)
(* failing call passes through a loop of a bulk method.                      *)
C10_FailureAtomicity ==
    \A t \in Threads :
        /\ Failed(t) => items = pre[t]
        /\ pc[t] \in {"extend", "comprehension"} => res[t].exc = "none"

C10_Witness ==
    \E t \in Threads :
        /\ Failed(t) /\ op[t] = "restore"
        /\ arg[t].type = "tuple"
        /\ arg[t].elems # <<>>
        /\ pre[t] # <<>>
        /\ pre[t] # arg[t].elems

(* C11 - snapshot/restore round trip: restore(snapshot()) with no other      *)
(* operation in between never fails and leaves the items and their order     *)
(* unchanged, for every contents.                                            *)
C11_RoundTrip ==
    \A t \in Threads :
        (Leaving(t) /\ op[t] = "restore") =>
            /\ ~Failed(t)
            /\ items = pre[t]
            /\ items = given[t]

C11_Witness ==
    \E t \in Threads :
        /\ Leaving(t) /\ op[t] = "restore"
        /\ kind = "Stack"
        /\ Len(pre[t]) = MaxSize
        /\ pre[t][1] # pre[t][MaxSize]
        /\ arg[t] = Last(log).obj

(* The ordered sequence types among the argument types: the ones the bulk   *)
(* methods accept                                                            *)
OrderedSequenceTypes == {"list", "tuple"}

(* C12 as claimed - restore(s) succeeds for every s of an ordered sequence   *)
(* type, replacing the contents by the items of s in order, and fails with   *)
(* InvalidArgument exactly when s is not of an ordered sequence type.        *)
C12_RestoreTakesSequences ==
    \A t \in Threads :
        (Leaving(t) /\ op[t] = "restore") =>
            /\ Failed(t) <=> arg[t].type \notin OrderedSequenceTypes
            /\ Failed(t) => res[t].exc \in InvalidArgument
            /\ ~Failed(t) => items = arg[t].elems

(* C12 as amended - restore(s) succeeds exactly when s is a list, replacing  *)
(* the contents by the items of s in order; for every other argument, a      *)
(* tuple too, it fails with InvalidArgument and changes nothing.             *)
C12_RestoreTakesLists ==
    \A t \in Threads :
        (Leaving(t) /\ op[t] = "restore") =>
            /\ Failed(t) <=> arg[t].type # "list"
            /\ Failed(t) => res[t].exc \in InvalidArgument /\ items = pre[t]
            /\ ~Failed(t) => items = arg[t].elems

C12_Witness ==
    \E t \in Threads :
        /\ Leaving(t) /\ op[t] = "restore"
        /\ arg[t].type = "tuple"
        /\ Len(arg[t].elems) = MaxBulk
        /\ res[t].exc = "TypeError"

(* count successive dequeue() / pop() calls on d, nothing in between:       *)
(* what they return, in order, and what they leave                           *)
RECURSIVE Singles(_, _, _)
Singles(k, d, n) ==
    IF n = 0 THEN [out |-> <<>>, rest |-> d]
    ELSE LET r == IF k = "Queue" THEN DequePopLeft(d) ELSE DequePop(d)
             s == Singles(k, r.rest, n - 1)
         IN  [out |-> <<r.item>> \o s.out, rest |-> s.rest]

(* C15 - bulk removal returns the items in removal order: for                *)
(* 1 <= count <= size, bulk_dequeue returns the first count items head to    *)
(* tail, bulk_pop the count topmost items topmost first; the other items     *)
(* stay as they are; result and contents are those of count single           *)
(* dequeue() / pop() calls.                                                  *)
C15_BulkRemovalOrder ==
    \A t \in Threads :
        (Leaving(t) /\ BulkRemove(t) /\ arg[t].count >= 1 /\ arg[t].count <= Len(pre[t])) =>
            LET n == Len(pre[t])
                c == arg[t].count
            IN  /\ ~Failed(t)
                /\ Len(res[t].list) = c
                /\ op[t] = "bulk_dequeue" =>
                      /\ \A i \in 1..c : res[t].list[i] = pre[t][i]
                      /\ items = SubSeq(pre[t], c + 1, n)
                /\ op[t] = "bulk_pop" =>
                      /\ \A i \in 1..c : res[t].list[i] = pre[t][n + 1 - i]
                      /\ items = SubSeq(pre[t], 1, n - c)
                /\ res[t].list = Singles(kind, pre[t], c).out
                /\ items = Singles(kind, pre[t], c).rest

C15_Witness ==
    \E t \in Threads :
        /\ Leaving(t) /\ op[t] = "bulk_pop"
        /\ arg[t].count = 2
        /\ Len(pre[t]) = 3
        /\ pre[t][1] # pre[t][3]
        /\ pre[t][2] # pre[t][3]
        /\ ~Failed(t)

(* C16 - swap_top() on a stack of at least two items exchanges the two       *)
(* topmost items and leaves the items below and the size as they are; a      *)
(* second swap_top() would restore the contents; with fewer than two items   *)
(* it fails with EmptyContainer.                                             *)
C16_SwapTop ==
    \A t \in Threads :
        (Leaving(t) /\ op[t] = "swap_top") =>
            LET n == Len(pre[t])
            IN  IF n >= 2
                THEN /\ ~Failed(t)
                     /\ Len(items) = n
                     /\ items[n] = pre[t][n - 1]
                     /\ items[n - 1] = pre[t][n]
                     /\ \A i \in 1..(n - 2) : items[i] = pre[t][i]
                     /\ SwapLastTwo(items) = pre[t]
                ELSE res[t].exc \in EmptyContainer

C16_Witness ==
    \E t \in Threads :
        /\ Leaving(t) /\ op[t] = "swap_top" /\ ~Failed(t)
        /\ Len(pre[t]) = 3
        /\ pre[t][2] # pre[t][3]

(* C17 - duplicate_top() on a non-empty stack pushes one more occurrence of  *)
(* the top item: one item more, the new top equal to the old top, the former *)
(* items in place; on an empty stack it fails with EmptyContainer.           *)
C17_DuplicateTop ==
    \A t \in Threads :
        (Leaving(t) /\ op[t] = "duplicate_top") =>
            LET n == Len(pre[t])
            IN  IF n >= 1
                THEN /\ ~Failed(t)
                     /\ Len(items) = n + 1
                     /\ items[n + 1] = pre[t][n]
                     /\ \A i \in 1..n : items[i] = pre[t][i]
                ELSE res[t].exc \in EmptyContainer

C17_Witness ==
    \E t \in Threads :
        /\ Leaving(t) /\ op[t] = "duplicate_top" /\ ~Failed(t)
        /\ Len(pre[t]) = 2
        /\ pre[t][1] # pre[t][2]

(* C18 - reverse() reverses in place: the item at position i is the one that *)
(* was at position size+1-i, so that the iteration order of a queue is       *)
(* turned around and the former bottom of a stack is its top; size and       *)
(* multiset of items stay; a second reverse() would restore the contents.    *)
C18_Reverse ==
    \A t \in Threads :
        (Leaving(t) /\ op[t] = "reverse") =>
            LET n == Len(pre[t])
            IN  /\ ~Failed(t)
                /\ Len(items) = n
                /\ \A i \in 1..n : items[i] = pre[t][n + 1 - i]
                /\ \A v \in Values : Count(items, v) = Count(pre[t], v)
                /\ DequeReverse(items) = pre[t]

C18_Witness ==
    \E t \in Threads :
        /\ Leaving(t) /\ op[t] = "reverse"
        /\ kind = "Queue"
        /\ Len(pre[t]) = 3
        /\ pre[t][1] # pre[t][3]

(* C19 - peek() never fails and changes nothing, returns the head *)
(* (queue) or top (stack) of a non-empty container, and returns None if and  *)
(* only if the container is empty, whatever items are stored.                *)
C19_PeekNoneIffEmpty ==
    \A t \in Threads :
        (Leaving(t) /\ op[t] = "peek") =>
            /\ ~Failed(t)
            /\ items = pre[t]
            /\ pre[t] # <<>> =>
                  res[t].val = IF kind = "Queue" THEN pre[t][1] ELSE Last(pre[t])
            /\ res[t].val = None <=> pre[t] = <<>>

(* the items the consumer received, in the order it received them *)
Taken == SelectSeq(log, LAMBDA r : r.exc = "none")

(* additions go behind everything present, removals take from the head, so   *)
(* the items are always in order of arrival and the head is the oldest       *)
ArrivalOrderKept ==
    LET n == Len(items)
        m == Len(items')
    IN  \/ m >= n /\ SubSeq(items', 1, n) = items
        \/ m < n /\ items' = SubSeq(items, n - m + 1, n)

ScopeLeft(t) == scope[t].st # "left" /\ scope'[t].st = "left"

C13_ScopedUseClears ==
    /\ [](\A t \in Threads : scope[t].st \in {"in", "exiting"} => scope[t].as = "self")
    /\ [][\A t \in Threads :
            ScopeLeft(t) =>
                /\ Leaving(t) /\ op[t] = "clear" /\ ~Failed(t)
                /\ pc'[t] = "idle"
                /\ items' = <<>>
                /\ scope'[t].exc = scope[t].exc]_vars

C13_Witness ==
    \E t \in Threads :
        /\ scope[t].st = "exiting"
        /\ scope[t].exc \in EmptyContainer
        /\ Leaving(t)
        /\ Len(pre[t]) >= 2
        /\ items = <<>>

====
